---- MODULE Spec2Model ----
(***************************************************************************)
(* Admission-controlled work queue and rate limiter of reddit-ai-summaries *)
(* (queueProcessor / summaryUtils / tokenBucket).                          *)
(*                                                                         *)
(* Times are milliseconds as in the source (Date.now()).  Every time in    *)
(* the model is a multiple of the 100 ms poll interval and every           *)
(* tokensPerMinute is a multiple of 600, so that the floating point refill *)
(* (ms / 1000) * (tokensPerMinute / 60) is an exact integer.               *)
(***************************************************************************)
EXTENDS Integers, Sequences, FiniteSets, TLC

\* ------------------------------------------------------------------ bounds
NItems == 2
MaxTicks == 2
MaxCrashes == 1
NPull == 11
MaxMinutes == 3
NCallers == 2
MaxPolls == 2
MaxJobId == 6

\* ------------------------------------------------------- program constants
MAX_RETRIES == 2
RETRY_INTERVAL == 300000
RETRY_DELAY == 60000
REQUEST_SLOT_TIMEOUT == 60000
TOKEN_WAIT_TIMEOUT == 60000
MAX_SUMMARY_LENGTH == 8000
BatchSize == 10
PollInterval == 100
CRON_EVERY_30_SECONDS == 30000

\* ------------------------------------------------------------- input sets
Items == 1..NItems
T0 == 10 * 60000
TickSteps == {RETRY_INTERVAL + RETRY_DELAY}
TokensPerMinuteChoices == {600000}
RequestsPerMinuteChoices == {1}
RequestsPerDayChoices == {1}
\* estimateTokens(SYSTEM_PROMPT + title + content) of the posts in the model
InputTokenChoices == {400}
\* estimateTokens(summary) as returned by the summarizer
OutputTokenChoices == {1500}

\* inputs of the runs that call the TokenBucket directly
LedgerTokensPerMinute == {6000}
LedgerRequestsPerMinute == {1, 2}
LedgerRequestsPerDay == {1, 2}
LedgerAmounts == {3000, 7000}
LedgerTickSteps == {30000}
\* limits that a settings change can install
UpdateTokensPerMinute == {3000}
Horizon == T0 + MaxMinutes * 60000

\* inputs of the runs that pull from a filled queue
PullItems == 1..NPull
PullScores == {T0 - 60000, T0, T0 + 60000}

Min(a, b) == IF a <= b THEN a ELSE b
Max(a, b) == IF a >= b THEN a ELSE b
CeilDiv(a, b) == (a + b - 1) \div b

\* ---------------------------------------------------------------- errors
\* An error is its name and its message, the two fields the worker inspects.
Err(n, m) == [name |-> n, message |-> m]
TimeoutError == Err("TimeoutError", "timed out")
ServiceUnavailable == Err("ServiceUnavailable", "service unavailable")
RateLimitMessage == Err("Error", "rate limit exceeded")
PermissionDenied == Err("Error", "PERMISSION_DENIED")
OtherError == Err("Error", "Failed to generate summary")
GeminiAuthenticationError == Err("Error", "GeminiAuthenticationError")
AuthStop == Err("Error", "GeminiAuthenticationError: Stopping queue processing")
DailyRequestLimitReached == Err("Error", "DailyRequestLimitReached")
RequestSlotUnavailable == Err("Error", "RequestSlotUnavailable")
TokensUnavailable == Err("Error", "TokensUnavailable")
FetchFailed == Err("Error", "Failed to fetch page, status code: 404")
NoError == Err("none", "")

\* messages m with m.toLowerCase().includes('rate limit')
RateLimitMessages == {"rate limit exceeded"}

isResolvableError(error) ==
    \/ error.name \in {"TimeoutError", "ServiceUnavailable", "RateLimitError"}
    \/ /\ error.message \in RateLimitMessages
       /\ error.message # "GeminiAuthenticationError"

\* ----------------------------------------------- sorted set (post_queue)
zAdd(q, m, s) == [x \in DOMAIN q \cup {m} |-> IF x = m THEN s ELSE q[x]]
\* a removal that removes nothing
zKeep(q, ms) == q

zRem(q, ms) == [x \in DOMAIN q \ ms |-> q[x]]

\* the members that zRemRangeByScore(key, lo, hi) removes
zRangeMembers(q, lo, hi) == {m \in DOMAIN q : lo <= q[m] /\ q[m] <= hi}

\* the member that comes last in (score, member) order
Last(S, q) ==
    CHOOSE m \in S : \A o \in S : q[m] > q[o] \/ (q[m] = q[o] /\ m >= o)

\* the member that comes first in (score, member) order
First(S, q) ==
    CHOOSE m \in S : \A o \in S : q[m] < q[o] \/ (q[m] = q[o] /\ m <= o)

RECURSIVE Ordered(_, _)
Ordered(S, q) ==
    IF S = {} THEN << >>
    ELSE LET m == First(S, q) IN << m >> \o Ordered(S \ {m}, q)

\* a range that ignores its upper end
zRangeFrom(q, lo, hi) ==
    Ordered({m \in DOMAIN q : lo <= q[m]}, q)

\* zRange(key, lo, hi, {by: 'score'}): members with lo <= score <= hi, ascending
zRangeByScore(q, lo, hi) ==
    Ordered({m \in DOMAIN q : lo <= q[m] /\ q[m] <= hi}, q)

\* a cut that is one element short
SliceShort(s, n) == SubSeq(s, 1, Min(Len(s), n - 1))

\* Array.prototype.slice(0, n)
Slice(s, n) == SubSeq(s, 1, Min(Len(s), n))

VARIABLES
    now,               \* Date.now()
    ticks,             \* number of clock advances so far (bounded)
    queue,             \* redis sorted set post_queue: member -> score
    retry,             \* redis hashes retry:<postId>, field count
    tokens,            \* redis key tokens
    lastRefill,        \* redis key last_refill
    requestsToday,     \* redis key requests_today
    lastRequest,       \* redis key last_request
    tokensPerMinute,   \* TokenBucket fields
    requestsPerMinute,
    requestsPerDay,
    callers,           \* the waitForTokens calls that run side by side
    sched,             \* scheduler jobs and the job ids kept in redis
    validation,        \* redis key api_key_validation is 'valid'
    authError,         \* redis key gemini_auth_error
    pc,                \* position of the process_queue invocation
    batch,             \* posts of the current cycle not yet started
    cur,               \* post being processed (0: none)
    curRetry,          \* currentRetryCount read for cur
    fatalOn,           \* post of the running invocation on which the summarizer
                       \* failed with an authentication error (0: none)
    failure,           \* the error being handled for cur (NoError: none)
    \* history variables
    enq,               \* posts ever enqueued
    apiCalls,          \* Gemini calls since the last daily reset, counted up
                       \* to one past requestsPerDay
    slotsGranted,      \* request slots granted since the last daily reset,
                       \* counted up to one past requestsPerDay
    lastGrant,         \* time of the last granted slot (-1: none)
    grantGap,          \* time between the last two granted slots (-1: none)
    op,                \* result of the last TokenBucket call made directly
    obs,               \* the post whose history is recorded
    published,         \* number of comments submitted for obs, counted up to 2
    reschedules,       \* number of re-enqueues of obs by retryPost
    outcome,           \* how the queue entry of obs was removed
    crashes,           \* number of kills so far (bounded)
    threw,             \* the last invocation ended by throwing to the scheduler
    began              \* Date.now() when the running invocation started; -1 none

ledger == << tokens, lastRefill, requestsToday, lastRequest >>
limits == << tokensPerMinute, requestsPerMinute, requestsPerDay >>
flags == << validation, authError >>
worker == << pc, batch, cur, curRetry, fatalOn, failure, failure >>
store == << queue, retry >>
quotaHist == << apiCalls, slotsGranted, lastGrant, grantGap, op >>
itemHist == << published, reschedules, outcome >>
meta == << enq, obs, crashes, threw, began >>
history == << quotaHist, itemHist, meta >>
clock == << now, ticks >>
vars == << clock, store, ledger, limits, callers, sched, flags, worker, history >>

\* ------------------------------------------------------------ TokenBucket
estimateMaxTokens(characterLimit) == CeilDiv(characterLimit, 4)
maxSummaryTokens == estimateMaxTokens(MAX_SUMMARY_LENGTH)

\* a rate that takes the 100 ms of a poll for a second
PerPollAsSecond(tpm) == tpm \div 60

\* tokens gained in one poll interval: (100 / 1000) * (tokensPerMinute / 60)
PerPoll(tpm) == tpm \div 600

\* a refill that forgets the cap
refillUncapped(tok, lastRef, t, tpm) ==
    tok + ((t - lastRef) \div PollInterval) * PerPoll(tpm)

\* refill at time t: the new value of the key tokens
refill(tok, lastRef, t, tpm) ==
    Min(tok + ((t - lastRef) \div PollInterval) * PerPoll(tpm), tpm)

\* waitForTokens started at time t.  The loop refills and tests every
\* PollInterval while Date.now() - startTime < timeout; k is the first poll
\* at which the refilled amount reaches the request.
waitForTokens(amount, tok, lastRef, t, tpm, timeout) ==
    LET c0 == refill(tok, lastRef, t, tpm)
        per == PerPoll(tpm)
        last == timeout \div PollInterval - 1
        k == IF c0 >= amount THEN 0
             ELSE IF amount > tpm \/ per = 0 THEN last + 1
             ELSE CeilDiv(amount - c0, per)
    IN  IF timeout <= 0
        THEN [granted |-> FALSE, now |-> t, tokens |-> tok, lastRefill |-> lastRef]
        ELSE IF k <= last
        THEN [granted |-> TRUE, now |-> t + k * PollInterval,
              tokens |-> Min(c0 + k * per, tpm) - amount,
              lastRefill |-> t + k * PollInterval]
        ELSE [granted |-> FALSE, now |-> t + timeout,
              tokens |-> Min(c0 + last * per, tpm),
              lastRefill |-> t + last * PollInterval]

\* a release that gives nothing back
releaseNothing(amount, tok, tpm) == tok

\* a release that forgets the cap
releaseTokensUncapped(amount, tok, tpm) == tok + amount

releaseTokens(amount, tok, tpm) == Min(tok + amount, tpm)

\* number of polls until now - lastRequest >= 60000 / requestsPerMinute
SlotPolls(t, lastReq, rpm) ==
    LET interval == CeilDiv(60000, rpm)
        elapsed == t - lastReq
    IN  IF elapsed >= interval THEN 0
        ELSE CeilDiv(interval - elapsed, PollInterval)

\* a daily test that lets one request too many through
underDailyLimitInclusive(reqToday, rpd) == reqToday <= rpd

\* waitForRequest: requestsToday < this.requestsPerDay
underDailyLimit(reqToday, rpd) == reqToday < rpd

\* waitForRequest started at time t.  It returns at the first poll at which
\* the spacing has elapsed, provided the daily count is under the limit;
\* otherwise it polls forever (granted = FALSE: it never returns).
waitForRequest(t, lastReq, reqToday, rpm, rpd) ==
    LET k == SlotPolls(t, lastReq, rpm)
    IN  IF underDailyLimit(reqToday, rpd)
        THEN [granted |-> TRUE, now |-> t + k * PollInterval,
              requestsToday |-> reqToday + 1,
              lastRequest |-> t + k * PollInterval]
        ELSE [granted |-> FALSE, now |-> t, requestsToday |-> reqToday,
              lastRequest |-> lastReq]

\* checkRequestAvailability started at time t
checkRequestAvailability(t, lastReq, reqToday, rpm, rpd, timeout) ==
    LET k == SlotPolls(t, lastReq, rpm)
    IN  IF timeout <= 0 THEN [result |-> "timeout", now |-> t]
        ELSE IF reqToday >= rpd THEN [result |-> "daily", now |-> t]
        ELSE IF k * PollInterval < timeout
        THEN [result |-> "granted", now |-> t + k * PollInterval]
        ELSE [result |-> "timeout", now |-> t + timeout]

\* ---------------------------------------------------------------- worker
EmptyMap == [x \in {} |-> 0]

\* no waitForTokens call runs beside the invocation
NoCallers == EmptyMap

\* the scheduled jobs by name, and nothing scheduled yet: active holds the
\* ids of the jobs the scheduler runs, key the id stored under the redis key
\* of the name ("" in the code, 0 here, when there is none)
JobNames == {"reset_daily_requests", "cleanup_queue", "process_queue"}
NoJobs ==
    [active |-> [name \in JobNames |-> {}], key |-> [name \in JobNames |-> 0],
     next |-> 1, upgradeInProgress |-> FALSE]

getCurrentRetryCount(postId) ==
    IF postId \in DOMAIN retry THEN retry[postId] ELSE 0

fetchPostIds == zRangeByScore(queue, 0, now)

\* a daily test that still runs the cycle when the count is at the limit
isDailyLimitReachedStrict == requestsToday > requestsPerDay

isDailyLimitReached == requestsToday >= requestsPerDay

\* a handler that reschedules whatever it does not recognise
handleSummaryErrorRetryAll(error) ==
    IF error.message = "GeminiAuthenticationError" THEN "authInvalidate"
    ELSE IF error.message = "DailyRequestLimitReached" THEN "loop"
    ELSE "retryPost"

\* where handleSummaryError continues for an error
handleSummaryErrorPc(error) ==
    IF error.message = "GeminiAuthenticationError" THEN "authInvalidate"
    ELSE IF isResolvableError(error) THEN "retryPost"
    ELSE IF error.message = "DailyRequestLimitReached" THEN "loop"
    ELSE "evict"

\* where handleGeneralError continues for an error
handleGeneralErrorPc(error) ==
    IF isResolvableError(error) THEN "retryPost" ELSE "evict"

\* the catch block of generateSummaryWithGemini
geminiError(error) ==
    IF error.message = "PERMISSION_DENIED" THEN GeminiAuthenticationError
    ELSE error

RedditErrors == {ServiceUnavailable, OtherError}
FetchErrors == {TimeoutError, FetchFailed}
GeminiErrors == {ServiceUnavailable, RateLimitMessage, PermissionDenied, OtherError}

Init ==
    /\ now = T0
    /\ ticks = 0
    /\ queue = EmptyMap
    /\ retry = EmptyMap
    /\ tokens = 0
    /\ lastRefill = 0
    /\ requestsToday = 0
    /\ lastRequest = 0
    /\ tokensPerMinute \in TokensPerMinuteChoices
    /\ requestsPerMinute \in RequestsPerMinuteChoices
    /\ requestsPerDay \in RequestsPerDayChoices
    /\ callers = NoCallers
    /\ sched = NoJobs
    /\ validation = FALSE
    /\ authError = FALSE
    /\ pc = "idle"
    /\ batch = << >>
    /\ cur = 0
    /\ curRetry = 0
    /\ fatalOn = 0
    /\ failure = NoError
    /\ enq = {}
    /\ apiCalls = 0
    /\ slotsGranted = 0
    /\ lastGrant = -1
    /\ grantGap = -1
    /\ op = "none"
    /\ obs \in Items
    /\ published = 0
    /\ reschedules = 0
    /\ outcome = "none"
    /\ crashes = 0
    /\ threw = FALSE
    /\ began = -1

\* PostSubmit trigger: enqueue a new post with score Date.now()
PostSubmit(i) ==
    /\ pc = "idle"
    /\ i \notin enq
    /\ queue' = zAdd(queue, i, now)
    /\ enq' = enq \cup {i}
    /\ UNCHANGED << clock, retry, ledger, limits, callers, sched, flags, worker, quotaHist,
                    itemHist, obs, crashes, threw, began >>

\* time passes between invocations
Tick(d) ==
    /\ pc = "idle"
    /\ ticks < MaxTicks
    /\ now' = now + d
    /\ ticks' = ticks + 1
    /\ UNCHANGED << store, ledger, limits, callers, sched, flags, worker, history >>

\* reset_daily_requests job
resetDailyRequests ==
    /\ pc \in {"idle", "ledger"}
    /\ requestsToday' = 0
    /\ tokens' = tokensPerMinute
    /\ apiCalls' = 0
    /\ slotsGranted' = 0
    /\ UNCHANGED << clock, store, lastRefill, lastRequest, limits, callers, sched, flags, worker,
                    lastGrant, grantGap, op, itemHist, meta >>

\* cleanup_queue job: zRemRangeByScore('post_queue', 0, oneDayAgoSeconds)
oneDayAgoSeconds == now \div 1000 - 86400

cleanupQueue ==
    LET old == zRangeMembers(queue, 0, oneDayAgoSeconds)
    IN  /\ pc = "idle"
        /\ queue' = zRem(queue, old)
        /\ outcome' = IF obs \in old THEN "purged" ELSE outcome
        /\ UNCHANGED << clock, retry, ledger, limits, callers, sched, flags, worker, quotaHist,
                        published, reschedules, meta >>

\* the api_key_validation key expires (API_KEY_VALIDATION_TTL)
expireValidation ==
    /\ pc = "idle"
    /\ validation
    /\ validation' = FALSE
    /\ UNCHANGED << clock, store, ledger, limits, callers, sched, authError, worker, history >>

\* process_queue job up to the loop over the batch.  hasKey: the api_key
\* setting is present; keyOk: the answer of the validation endpoint.
processQueue ==
    /\ pc = "idle"
    /\ \E hasKey \in BOOLEAN, keyOk \in BOOLEAN :
        IF ~hasKey
        THEN /\ threw' = FALSE
             /\ UNCHANGED << validation, pc, batch, began >>
        ELSE IF ~validation /\ ~keyOk
        THEN \* throw new Error('InvalidApiKey')
             /\ threw' = TRUE
             /\ UNCHANGED << validation, pc, batch, began >>
        ELSE /\ validation' = TRUE
             /\ threw' = FALSE
             /\ IF isDailyLimitReached \/ fetchPostIds = << >>
                THEN UNCHANGED << pc, batch, began >>
                ELSE /\ batch' = Slice(fetchPostIds, BatchSize)
                     /\ pc' = "loop"
                     /\ began' = now
    /\ UNCHANGED << clock, store, ledger, limits, callers, sched, authError, cur, curRetry, fatalOn,
                    failure, quotaHist, itemHist, enq, obs, crashes >>

\* for (const post of postIds.slice(0, 10))
nextPost ==
    /\ pc = "loop"
    /\ IF batch = << >>
       THEN /\ pc' = "idle"
            /\ cur' = 0
            /\ UNCHANGED batch
       ELSE /\ pc' = "getPost"
            /\ cur' = Head(batch)
            /\ batch' = Tail(batch)
    /\ curRetry' = 0
    /\ fatalOn' = IF batch = << >> THEN 0 ELSE fatalOn
    /\ failure' = NoError
    /\ began' = IF batch = << >> THEN -1 ELSE began
    /\ UNCHANGED << clock, store, ledger, limits, callers, sched, flags, quotaHist, itemHist,
                    enq, obs, crashes, threw >>

Removed(why) ==
    IF cur = obs /\ cur \in DOMAIN queue THEN why ELSE outcome

\* processSinglePost: getPostById, then the read of the retry count
getPostById ==
    /\ pc = "getPost"
    /\ \/ /\ queue' = zRem(queue, {cur})
          /\ outcome' = Removed("notFound")
          /\ pc' = "loop"
          /\ UNCHANGED << curRetry, failure >>
       \/ /\ curRetry' = getCurrentRetryCount(cur)
          /\ pc' = "fetch"
          /\ UNCHANGED << queue, outcome, failure >>
       \/ \E e \in RedditErrors :
          /\ pc' = handleGeneralErrorPc(e)
          /\ failure' = e
          /\ curRetry' = getCurrentRetryCount(cur)
          /\ UNCHANGED << queue, outcome >>
    /\ UNCHANGED << clock, retry, ledger, limits, callers, sched, flags, batch, cur, fatalOn, quotaHist,
                    published, reschedules, meta >>

\* processSinglePost: fetchArticleContent; any fetch error goes to retryPost
\* with the count read before the fetch
fetchArticleContent ==
    /\ pc = "fetch"
    /\ \/ /\ pc' = "summarize"
          /\ UNCHANGED failure
       \/ \E fetchError \in FetchErrors :
          /\ pc' = "retryPost"
          /\ failure' = fetchError
    /\ UNCHANGED << clock, store, ledger, limits, callers, sched, flags, batch, cur, fatalOn, curRetry,
                    history >>

\* a retry test that never gives up
canRetryAlways(currentRetryCount) == TRUE

\* a retry test that is off by one
canRetryInclusive(currentRetryCount) == currentRetryCount <= MAX_RETRIES

\* retryPost: currentRetryCount < CONSTANTS.MAX_RETRIES
canRetry(currentRetryCount) == currentRetryCount < MAX_RETRIES

\* a counter write that forgets the increment
sameRetryCount(currentRetryCount) == currentRetryCount

\* retryPost: the count written by hSet
nextRetryCount(currentRetryCount) == currentRetryCount + 1

\* retryPost, first write: zAdd with the new score, or zRem
retryPost ==
    /\ pc = "retryPost"
    /\ IF canRetry(curRetry)
       THEN /\ queue' = zAdd(queue, cur, now + RETRY_INTERVAL + RETRY_DELAY)
            /\ reschedules' = IF cur = obs THEN reschedules + 1 ELSE reschedules
            /\ pc' = "retryHSet"
            /\ UNCHANGED outcome
       ELSE /\ queue' = zRem(queue, {cur})
            /\ outcome' = Removed("exhausted")
            /\ pc' = "del"
            /\ UNCHANGED reschedules
    /\ UNCHANGED << clock, retry, ledger, limits, callers, sched, flags, batch, cur, fatalOn, failure, curRetry,
                    quotaHist, published, meta >>

\* retryPost, second write: hSet(retry:<postId>, count + 1)
retryHSet ==
    /\ pc = "retryHSet"
    /\ retry' = zAdd(retry, cur, nextRetryCount(curRetry))
    /\ pc' = "loop"
    /\ failure' = NoError
    /\ UNCHANGED << clock, queue, ledger, limits, callers, sched, flags, batch, cur, fatalOn, curRetry,
                    history >>

\* non-resolvable error: zRem
evict ==
    /\ pc = "evict"
    /\ queue' = zRem(queue, {cur})
    /\ outcome' = Removed("nonResolvable")
    /\ pc' = "del"
    /\ UNCHANGED << clock, retry, ledger, limits, callers, sched, flags, batch, cur, fatalOn, failure, curRetry,
                    quotaHist, published, reschedules, meta >>

\* del(retry:<postId>) after a zRem
delRetry ==
    /\ pc = "del"
    /\ retry' = zRem(retry, {cur})
    /\ pc' = "loop"
    /\ failure' = NoError
    /\ UNCHANGED << clock, queue, ledger, limits, callers, sched, flags, batch, cur, fatalOn, curRetry,
                    history >>

\* summarizeContent up to the Gemini call: checkRequestAvailability, then
\* waitForTokens(inputTokens + maxSummaryTokens); an error of either goes to
\* handleSummaryError
summarizeContent ==
    /\ pc = "summarize"
    /\ \E inputTokens \in InputTokenChoices :
        LET slot == checkRequestAvailability(now, lastRequest, requestsToday,
                        requestsPerMinute, requestsPerDay, REQUEST_SLOT_TIMEOUT)
            wait == waitForTokens(inputTokens + maxSummaryTokens, tokens, lastRefill,
                        slot.now, tokensPerMinute, TOKEN_WAIT_TIMEOUT)
        IN  IF slot.result = "daily"
            THEN /\ pc' = handleSummaryErrorPc(DailyRequestLimitReached)
                 /\ failure' = DailyRequestLimitReached
                 /\ UNCHANGED << now, tokens, lastRefill, slotsGranted, lastGrant, grantGap >>
            ELSE IF slot.result = "timeout"
            THEN /\ pc' = handleSummaryErrorPc(RequestSlotUnavailable)
                 /\ failure' = RequestSlotUnavailable
                 /\ now' = slot.now
                 /\ UNCHANGED << tokens, lastRefill, slotsGranted, lastGrant, grantGap >>
            ELSE /\ slotsGranted' = Min(slotsGranted + 1, requestsPerDay + 1)
                 /\ lastGrant' = slot.now
                 /\ grantGap' = IF lastGrant = -1 THEN -1 ELSE slot.now - lastGrant
                 /\ now' = wait.now
                 /\ tokens' = wait.tokens
                 /\ lastRefill' = wait.lastRefill
                 /\ pc' = IF wait.granted THEN "gemini"
                          ELSE handleSummaryErrorPc(TokensUnavailable)
                 /\ failure' = IF wait.granted THEN failure ELSE TokensUnavailable
    /\ curRetry' = getCurrentRetryCount(cur)
    /\ UNCHANGED << ticks, store, requestsToday, lastRequest, limits, callers, sched, flags, batch,
                    cur, fatalOn, apiCalls, op, itemHist, meta >>

\* generateSummaryWithGemini and the release of the unused output tokens
generateSummaryWithGemini ==
    /\ pc = "gemini"
    /\ apiCalls' = Min(apiCalls + 1, requestsPerDay + 1)
    /\ \/ \E actualOutputTokens \in OutputTokenChoices :
            LET unusedTokens == maxSummaryTokens - actualOutputTokens
            IN  /\ tokens' = IF unusedTokens > 0
                             THEN releaseTokens(unusedTokens, tokens, tokensPerMinute)
                             ELSE tokens
                /\ pc' = "submit"
                /\ UNCHANGED failure
       \/ \E e \in GeminiErrors :
            /\ tokens' = releaseTokens(maxSummaryTokens, tokens, tokensPerMinute)
            /\ pc' = handleSummaryErrorPc(geminiError(e))
            /\ failure' = geminiError(e)
    /\ curRetry' = getCurrentRetryCount(cur)
    /\ UNCHANGED << clock, store, lastRefill, requestsToday, lastRequest, limits, callers, sched,
                    flags, batch, cur, fatalOn, slotsGranted, lastGrant, grantGap, op,
                    itemHist, meta >>

\* handleSummaryError on GeminiAuthenticationError: invalidateApiKeyValidation
authInvalidate ==
    /\ pc = "authInvalidate"
    /\ validation' = FALSE
    /\ fatalOn' = cur
    /\ pc' = "authFlag"
    /\ UNCHANGED << clock, store, ledger, limits, callers, sched, authError, batch, cur, curRetry,
                    failure, history >>

\* ... then set gemini_auth_error and throw; the throw is caught by
\* processSinglePost, which passes it to handleGeneralError
authFlag ==
    /\ pc = "authFlag"
    /\ authError' = TRUE
    /\ pc' = handleGeneralErrorPc(AuthStop)
    /\ failure' = AuthStop
    /\ curRetry' = getCurrentRetryCount(cur)
    /\ UNCHANGED << clock, store, ledger, limits, callers, sched, validation, batch, cur, fatalOn, history >>

\* reddit.submitComment: a comment, no comment, or an error
submitComment ==
    /\ pc = "submit"
    /\ \/ /\ published' = IF cur = obs THEN Min(published + 1, 2) ELSE published
          /\ pc' = "distinguish"
          /\ UNCHANGED failure
       \/ /\ pc' = "remove"
          /\ UNCHANGED << published, failure >>
       \/ \E e \in RedditErrors :
          /\ pc' = handleSummaryErrorPc(e)
          /\ failure' = e
          /\ UNCHANGED published
    /\ curRetry' = getCurrentRetryCount(cur)
    /\ UNCHANGED << clock, store, ledger, limits, callers, sched, flags, batch, cur, fatalOn, quotaHist,
                    reschedules, outcome, meta >>

\* comment.distinguish(true)
distinguish ==
    /\ pc = "distinguish"
    /\ \/ /\ pc' = "remove"
          /\ UNCHANGED failure
       \/ \E e \in RedditErrors :
          /\ pc' = handleSummaryErrorPc(e)
          /\ failure' = e
    /\ curRetry' = getCurrentRetryCount(cur)
    /\ UNCHANGED << clock, store, ledger, limits, callers, sched, flags, batch, cur, fatalOn, history >>

\* generateAndSubmitSummary: zRem after the comment step
removePost ==
    /\ pc = "remove"
    /\ queue' = zRem(queue, {cur})
    /\ outcome' = Removed("submitted")
    /\ pc' = "del"
    /\ UNCHANGED << clock, retry, ledger, limits, callers, sched, flags, batch, cur, fatalOn, failure, curRetry,
                    quotaHist, published, reschedules, meta >>

\* the invocation is killed; the durable store keeps what was written
Crash ==
    /\ pc # "idle"
    /\ crashes < MaxCrashes
    /\ crashes' = crashes + 1
    /\ pc' = "idle"
    /\ batch' = << >>
    /\ cur' = 0
    /\ curRetry' = 0
    /\ fatalOn' = 0
    /\ failure' = NoError
    /\ began' = -1
    /\ UNCHANGED << clock, store, ledger, limits, callers, sched, flags, quotaHist, itemHist, enq,
                    obs, threw >>

Next ==
    \/ \E i \in Items : PostSubmit(i)
    \/ \E d \in TickSteps : Tick(d)
    \/ resetDailyRequests
    \/ cleanupQueue
    \/ expireValidation
    \/ processQueue
    \/ nextPost
    \/ getPostById
    \/ fetchArticleContent
    \/ retryPost
    \/ retryHSet
    \/ evict
    \/ delRetry
    \/ summarizeContent
    \/ generateSummaryWithGemini
    \/ authInvalidate
    \/ authFlag
    \/ submitComment
    \/ distinguish
    \/ removePost

\* crash-free runs
Spec == Init /\ [][Next]_vars

\* crash-free runs in which the tokens_per_minute setting can be lower than
\* the tokens one summary asks for
QuotaTokensPerMinute == {1800, 600000}

InitQuota ==
    /\ now = T0
    /\ ticks = 0
    /\ queue = EmptyMap
    /\ retry = EmptyMap
    /\ tokens = 0
    /\ lastRefill = 0
    /\ requestsToday = 0
    /\ lastRequest = 0
    /\ tokensPerMinute \in QuotaTokensPerMinute
    /\ requestsPerMinute \in RequestsPerMinuteChoices
    /\ requestsPerDay \in RequestsPerDayChoices
    /\ callers = NoCallers
    /\ sched = NoJobs
    /\ validation = FALSE
    /\ authError = FALSE
    /\ pc = "idle"
    /\ batch = << >>
    /\ cur = 0
    /\ curRetry = 0
    /\ fatalOn = 0
    /\ failure = NoError
    /\ enq = {}
    /\ apiCalls = 0
    /\ slotsGranted = 0
    /\ lastGrant = -1
    /\ grantGap = -1
    /\ op = "none"
    /\ obs \in Items
    /\ published = 0
    /\ reschedules = 0
    /\ outcome = "none"
    /\ crashes = 0
    /\ threw = FALSE
    /\ began = -1

SpecQuota == InitQuota /\ [][Next]_vars

\* runs in which the invocation can be killed at any point
NextCrash ==
    \/ Next
    \/ Crash

SpecCrash == Init /\ [][NextCrash]_vars

\* ------------------------------------------- the TokenBucket called directly
\* Runs in which a caller issues any sequence of TokenBucket calls, one at a
\* time, with the limits fixed at construction.
InitLedger ==
    /\ now = T0
    /\ ticks = 0
    /\ queue = EmptyMap
    /\ retry = EmptyMap
    /\ tokens = 0
    /\ lastRefill = 0
    /\ requestsToday = 0
    /\ lastRequest = 0
    /\ tokensPerMinute \in LedgerTokensPerMinute
    /\ requestsPerMinute \in LedgerRequestsPerMinute
    /\ requestsPerDay \in LedgerRequestsPerDay
    /\ callers = NoCallers
    /\ sched = NoJobs
    /\ validation = FALSE
    /\ authError = FALSE
    /\ pc = "ledger"
    /\ batch = << >>
    /\ cur = 0
    /\ curRetry = 0
    /\ fatalOn = 0
    /\ failure = NoError
    /\ enq = {}
    /\ apiCalls = 0
    /\ slotsGranted = 0
    /\ lastGrant = -1
    /\ grantGap = -1
    /\ op = "none"
    /\ obs = 1
    /\ published = 0
    /\ reschedules = 0
    /\ outcome = "none"
    /\ crashes = 0
    /\ threw = FALSE
    /\ began = -1

\* time passes between two calls
LedgerTick(d) ==
    /\ pc = "ledger"
    /\ now < Horizon
    /\ now' = now + d
    /\ UNCHANGED << ticks, store, ledger, limits, callers, sched, flags, worker, history >>

\* tokenBucketInstance.waitForTokens(amount, context, TOKEN_WAIT_TIMEOUT)
callWaitForTokens(amount) ==
    LET wait == waitForTokens(amount, tokens, lastRefill, now, tokensPerMinute,
                    TOKEN_WAIT_TIMEOUT)
    IN  /\ pc = "ledger"
        /\ now < Horizon
        /\ now' = wait.now
        /\ tokens' = wait.tokens
        /\ lastRefill' = wait.lastRefill
        /\ op' = IF wait.granted THEN "tokensGranted" ELSE "tokensTimedOut"
        /\ UNCHANGED << ticks, store, requestsToday, lastRequest, limits, callers, sched, flags,
                        worker, apiCalls, slotsGranted, lastGrant, grantGap,
                        itemHist, meta >>

\* tokenBucketInstance.releaseTokens(amount, context)
callReleaseTokens(amount) ==
    /\ pc = "ledger"
    /\ tokens' = releaseTokens(amount, tokens, tokensPerMinute)
    /\ op' = "released"
    /\ UNCHANGED << clock, store, lastRefill, requestsToday, lastRequest, limits, callers, sched,
                    flags, worker, apiCalls, slotsGranted, lastGrant, grantGap,
                    itemHist, meta >>

\* tokenBucketInstance.waitForRequest(context), when it returns
callWaitForRequest ==
    LET req == waitForRequest(now, lastRequest, requestsToday, requestsPerMinute,
                   requestsPerDay)
    IN  /\ pc = "ledger"
        /\ now < Horizon
        /\ req.granted
        /\ now' = req.now
        /\ requestsToday' = req.requestsToday
        /\ lastRequest' = req.lastRequest
        /\ slotsGranted' = Min(slotsGranted + 1, requestsPerDay + 1)
        /\ lastGrant' = req.now
        /\ grantGap' = IF lastGrant = -1 THEN -1 ELSE req.now - lastGrant
        /\ op' = "slotReserved"
        /\ UNCHANGED << ticks, store, tokens, lastRefill, limits, callers, sched, flags, worker,
                        apiCalls, itemHist, meta >>

\* tokenBucketInstance.checkRequestAvailability(context, REQUEST_SLOT_TIMEOUT)
callCheckRequestAvailability ==
    LET slot == checkRequestAvailability(now, lastRequest, requestsToday,
                    requestsPerMinute, requestsPerDay, REQUEST_SLOT_TIMEOUT)
    IN  /\ pc = "ledger"
        /\ now < Horizon
        /\ now' = slot.now
        /\ op' = IF slot.result = "granted" THEN "slotAvailable"
                 ELSE IF slot.result = "daily" THEN "slotDailyLimit"
                 ELSE "slotTimedOut"
        /\ UNCHANGED << ticks, store, ledger, limits, callers, sched, flags, worker, apiCalls,
                        slotsGranted, lastGrant, grantGap, itemHist, meta >>

NextLedger ==
    \/ \E d \in LedgerTickSteps : LedgerTick(d)
    \/ \E amount \in LedgerAmounts : callWaitForTokens(amount)
    \/ \E amount \in LedgerAmounts : callReleaseTokens(amount)
    \/ callWaitForRequest
    \/ callCheckRequestAvailability
    \/ resetDailyRequests

SpecLedger == InitLedger /\ [][NextLedger]_vars

\* ----------------------------------------------------- changes of limits
\* an update that leaves the stored tokens as they are
keepTokens(currentTokens, tpm) == currentTokens

\* updateLimits: Math.min(currentTokens, this.tokensPerMinute)
clampTokens(currentTokens, tpm) == Min(currentTokens, tpm)

\* tokenBucketInstance.updateLimits(tpm, rpm, rpd, context)
updateLimits(tpm, rpm, rpd) ==
    /\ pc = "ledger"
    /\ tokensPerMinute' = tpm
    /\ requestsPerMinute' = rpm
    /\ requestsPerDay' = rpd
    /\ tokens' = clampTokens(tokens, tpm)
    /\ lastRefill' = now
    /\ op' = "limitsUpdated"
    /\ UNCHANGED << clock, store, requestsToday, lastRequest, callers, sched, flags,
                    worker, apiCalls, slotsGranted, lastGrant, grantGap, itemHist,
                    meta >>

NextLimits ==
    \/ NextLedger
    \* a change of the tokens_per_minute setting, the others as they are
    \/ \E tpm \in UpdateTokensPerMinute :
          updateLimits(tpm, requestsPerMinute, requestsPerDay)

\* the TokenBucket called directly, with changes of its limits
SpecLimits == InitLedger /\ [][NextLimits]_vars

\* ------------------------------------------------- API key change handling
\* checkAndUpdateApiKey: the object it returns.  stored: api_key_validation
\* is 'valid'; keyOk: the answer of the validation endpoint.
checkAndUpdateApiKey(hasKey, hashDiffers, stored, keyOk) ==
    IF ~hasKey THEN [changed |-> FALSE, valid |-> FALSE]
    ELSE [changed |-> hashDiffers, valid |-> stored \/ keyOk]

\* if (apiKeyChanged): the value tested is the object returned by
\* checkAndUpdateApiKey, and an object is truthy whatever its fields hold
truthy(object) == TRUE

\* processQueue of the revision that handles API key changes, up to
\* handleApiKeyUpdate: resetBucket when the test of the result passes
handleApiKeyUpdate ==
    /\ pc = "ledger"
    /\ ~isDailyLimitReached
    /\ \E hasKey \in BOOLEAN, hashDiffers \in BOOLEAN, keyOk \in BOOLEAN :
        LET apiKeyChanged == checkAndUpdateApiKey(hasKey, hashDiffers, validation,
                                 keyOk)
        IN  /\ validation' = (validation \/ (hasKey /\ keyOk))
            /\ IF truthy(apiKeyChanged)
               THEN \* resetBucket
                    /\ tokens' = tokensPerMinute
                    /\ requestsToday' = 0
                    /\ lastRefill' = now
                    /\ lastRequest' = 0
                    /\ op' = "bucketReset"
               ELSE UNCHANGED << ledger, op >>
    /\ UNCHANGED << clock, store, limits, callers, sched, authError, worker, apiCalls,
                    slotsGranted, lastGrant, grantGap, itemHist, meta >>

NextKey ==
    \/ NextLedger
    \/ handleApiKeyUpdate

\* the TokenBucket called directly, with process_queue invocations that
\* handle API key changes
SpecKey == InitLedger /\ [][NextKey]_vars

\* ------------------------------------------ invocations at the daily limit
\* a caller of tokenBucketInstance.waitForRequest between two invocations
\* of the worker, when the call returns; the wait moves the clock
reserveRequestSlot ==
    LET req == waitForRequest(now, lastRequest, requestsToday, requestsPerMinute,
                   requestsPerDay)
    IN  /\ pc = "idle"
        /\ ticks < MaxTicks
        /\ req.granted
        /\ now' = req.now
        /\ ticks' = ticks + 1
        /\ requestsToday' = req.requestsToday
        /\ lastRequest' = req.lastRequest
        /\ slotsGranted' = Min(slotsGranted + 1, requestsPerDay + 1)
        /\ lastGrant' = req.now
        /\ grantGap' = IF lastGrant = -1 THEN -1 ELSE req.now - lastGrant
        /\ op' = "slotReserved"
        /\ UNCHANGED << store, tokens, lastRefill, limits, callers, sched, flags, worker,
                        apiCalls, itemHist, meta >>

NextDaily ==
    \/ \E i \in Items : PostSubmit(i)
    \/ \E d \in TickSteps : Tick(d)
    \/ reserveRequestSlot
    \/ resetDailyRequests
    \/ expireValidation
    \/ processQueue

\* Runs in which request slots are reserved between the invocations of the
\* worker, each invocation followed up to the cut of its batch.
SpecDaily == Init /\ [][NextDaily]_vars

\* ---------------------------------------------------- posts that grow old
\* 24 hours in milliseconds
OneDay == 24 * 60 * 60 * 1000

\* time between two runs of the jobs: minutes or more than a day
PurgeTickSteps == TickSteps \cup {OneDay + RETRY_DELAY}

NextPurge ==
    \/ \E i \in Items : PostSubmit(i)
    \/ \E d \in PurgeTickSteps : Tick(d)
    \/ cleanupQueue

\* Runs of the cleanup_queue job over posts that stay in the queue for
\* more than a day.
SpecPurge == Init /\ [][NextPurge]_vars

\* ------------------------------------------- the cadences firing for ever
\* Runs in which no usable API key is ever configured: every process_queue
\* invocation returns or throws before it pulls a batch, while posts keep
\* arriving, days pass and the three jobs keep firing.
LiveTickSteps == {OneDay + RETRY_DELAY}

\* a process_queue invocation that ends before the loop over the batch
processQueueReturns == processQueue /\ pc' = "idle"

NextLive ==
    \/ \E i \in Items : PostSubmit(i)
    \/ \E d \in LiveTickSteps : Tick(d)
    \/ resetDailyRequests
    \/ cleanupQueue
    \/ processQueueReturns

\* the scheduler fires each cron job again and again, and time goes on
SpecLive ==
    /\ Init
    /\ [][NextLive]_vars
    /\ WF_vars(\E d \in LiveTickSteps : Tick(d))
    /\ WF_vars(resetDailyRequests)
    /\ WF_vars(cleanupQueue)
    /\ WF_vars(processQueueReturns)

\* ------------------------------------ waitForTokens calls side by side
\* Runs in which NCallers calls of waitForTokens share the keys tokens and
\* last_refill.  Every await of the method is a point at which another call
\* may run, so every redis access is a step of its own.
Callers == 1..NCallers
RaceTokens == 3000
RaceTimeouts == {2 * PollInterval}
RaceHorizon == T0 + MaxPolls * PollInterval

idleCaller ==
    [at |-> "idle", amount |-> 0, timeout |-> 0, startTime |-> 0, t |-> 0,
     lastRefill |-> 0, updatedTokens |-> 0, currentTokens |-> 0, wake |-> 0,
     granted |-> FALSE]

InitRace ==
    /\ now = T0
    /\ ticks = 0
    /\ queue = EmptyMap
    /\ retry = EmptyMap
    /\ tokens = RaceTokens
    /\ lastRefill = T0
    /\ requestsToday = 0
    /\ lastRequest = 0
    /\ tokensPerMinute \in LedgerTokensPerMinute
    /\ requestsPerMinute = 1
    /\ requestsPerDay = 1
    /\ callers = [c \in Callers |-> idleCaller]
    /\ sched = NoJobs
    /\ validation = FALSE
    /\ authError = FALSE
    /\ pc = "race"
    /\ batch = << >>
    /\ cur = 0
    /\ curRetry = 0
    /\ fatalOn = 0
    /\ failure = NoError
    /\ enq = {}
    /\ apiCalls = 0
    /\ slotsGranted = 0
    /\ lastGrant = -1
    /\ grantGap = -1
    /\ op = "none"
    /\ obs = 1
    /\ published = 0
    /\ reschedules = 0
    /\ outcome = "none"
    /\ crashes = 0
    /\ threw = FALSE
    /\ began = -1

\* the steps of a call leave everything but the two keys and the call alone
raceFrame ==
    UNCHANGED << clock, store, requestsToday, lastRequest, limits, sched, flags,
                 worker, history >>

\* the clock moves while calls are under way
raceTick ==
    /\ pc = "race"
    /\ now < RaceHorizon
    /\ now' = now + PollInterval
    /\ UNCHANGED << ticks, store, ledger, limits, callers, sched, flags, worker, history >>

\* const startTime = Date.now(); while (Date.now() - startTime < timeout)
raceCall(c, amount, timeout) ==
    /\ pc = "race"
    /\ callers[c].at = "idle"
    /\ callers' = [callers EXCEPT ![c] =
           [@ EXCEPT !.at = IF timeout > 0 THEN "refillRead" ELSE "done",
                     !.amount = amount, !.timeout = timeout, !.startTime = now]]
    /\ UNCHANGED << tokens, lastRefill >>
    /\ raceFrame

\* refill: const now = Date.now(); lastRefill = await redis.get(last_refill)
raceRefillRead(c) ==
    /\ pc = "race"
    /\ callers[c].at = "refillRead"
    /\ callers' = [callers EXCEPT ![c] =
           [@ EXCEPT !.at = "refillTokens", !.t = now, !.lastRefill = lastRefill]]
    /\ UNCHANGED << tokens, lastRefill >>
    /\ raceFrame

\* refill: currentTokens = await redis.get(tokens); updatedTokens = min(...)
raceRefillTokens(c) ==
    /\ pc = "race"
    /\ callers[c].at = "refillTokens"
    /\ callers' = [callers EXCEPT ![c] =
           [@ EXCEPT !.at = "refillWrite",
                     !.updatedTokens = refill(tokens, callers[c].lastRefill,
                                           callers[c].t, tokensPerMinute)]]
    /\ UNCHANGED << tokens, lastRefill >>
    /\ raceFrame

\* refill: await redis.set(tokens, updatedTokens)
raceRefillWrite(c) ==
    /\ pc = "race"
    /\ callers[c].at = "refillWrite"
    /\ tokens' = callers[c].updatedTokens
    /\ callers' = [callers EXCEPT ![c] = [@ EXCEPT !.at = "refillStamp"]]
    /\ UNCHANGED lastRefill
    /\ raceFrame

\* refill: await redis.set(last_refill, now)
raceRefillStamp(c) ==
    /\ pc = "race"
    /\ callers[c].at = "refillStamp"
    /\ lastRefill' = callers[c].t
    /\ callers' = [callers EXCEPT ![c] = [@ EXCEPT !.at = "test"]]
    /\ UNCHANGED tokens
    /\ raceFrame

\* currentTokens = await redis.get(tokens); if (currentTokens >= tokens)
raceTest(c) ==
    /\ pc = "race"
    /\ callers[c].at = "test"
    /\ callers' = [callers EXCEPT ![c] =
           [@ EXCEPT !.at = IF tokens >= callers[c].amount THEN "reserve"
                            ELSE "sleep",
                     !.currentTokens = tokens,
                     !.wake = now + PollInterval]]
    /\ UNCHANGED << tokens, lastRefill >>
    /\ raceFrame

\* await redis.set(tokens, currentTokens - tokens); return true
raceReserve(c) ==
    /\ pc = "race"
    /\ callers[c].at = "reserve"
    /\ tokens' = callers[c].currentTokens - callers[c].amount
    /\ callers' = [callers EXCEPT ![c] = [@ EXCEPT !.at = "done", !.granted = TRUE]]
    /\ UNCHANGED lastRefill
    /\ raceFrame

\* the 100 ms sleep ends; the loop test runs again, or the call returns false
raceWake(c) ==
    /\ pc = "race"
    /\ callers[c].at = "sleep"
    /\ now >= callers[c].wake
    /\ callers' = [callers EXCEPT ![c] =
           [@ EXCEPT !.at = IF now - callers[c].startTime < callers[c].timeout
                            THEN "refillRead" ELSE "done"]]
    /\ UNCHANGED << tokens, lastRefill >>
    /\ raceFrame

NextRace ==
    \/ raceTick
    \/ \E c \in Callers, amount \in LedgerAmounts, timeout \in RaceTimeouts :
           raceCall(c, amount, timeout)
    \/ \E c \in Callers : raceRefillRead(c)
    \/ \E c \in Callers : raceRefillTokens(c)
    \/ \E c \in Callers : raceRefillWrite(c)
    \/ \E c \in Callers : raceRefillStamp(c)
    \/ \E c \in Callers : raceTest(c)
    \/ \E c \in Callers : raceReserve(c)
    \/ \E c \in Callers : raceWake(c)

SpecRace == InitRace /\ [][NextRace]_vars

\* --------------------------------------------- installs and upgrades
\* Runs of the AppInstall and AppUpgrade triggers, one after the other, with
\* whatever the scheduler answers to cancelJob and runJob.
CancelOutcomes == {"cancelled", "error"}
RunOutcomes == {"scheduled", "none"}
JobOrder == << "reset_daily_requests", "cleanup_queue", "process_queue" >>
SettingsTokensPerMinute == TokensPerMinuteChoices \cup UpdateTokensPerMinute

\* scheduleJob(context, name, cron, redisKey): cancelJob on the stored id,
\* an error of which is logged and passed over, then runJob and, when it
\* gave an id, the id stored under the key
scheduleJob(s, name, cancel, run) ==
    LET existingJobId == s.key[name]
        kept == IF existingJobId # 0 /\ cancel = "cancelled"
                THEN s.active[name] \ {existingJobId}
                ELSE s.active[name]
        jobId == s.next
    IN  IF run = "scheduled"
        THEN [s EXCEPT !.active[name] = kept \cup {jobId},
                       !.key[name] = jobId,
                       !.next = jobId + 1]
        ELSE [s EXCEPT !.active[name] = kept]

\* scheduleAllJobs: the three jobs in the order of jobsToSchedule
scheduleAllJobs(s, cancel, run) ==
    LET s1 == scheduleJob(s, JobOrder[1], cancel[1], run[1])
        s2 == scheduleJob(s1, JobOrder[2], cancel[2], run[2])
    IN  scheduleJob(s2, JobOrder[3], cancel[3], run[3])

\* tokenBucketInstance.checkAndUpdateLimits(context): updateLimits when the
\* setting differs from the field
checkAndUpdateLimits(newTokensPerMinute) ==
    IF newTokensPerMinute # tokensPerMinute
    THEN /\ tokensPerMinute' = newTokensPerMinute
         /\ tokens' = clampTokens(tokens, newTokensPerMinute)
         /\ lastRefill' = now
    ELSE UNCHANGED << tokensPerMinute, tokens, lastRefill >>

jobsFrame ==
    UNCHANGED << clock, store, requestsToday, lastRequest, requestsPerMinute,
                 requestsPerDay, callers, flags, worker, history >>

\* AppInstall trigger
AppInstall ==
    /\ pc = "idle"
    /\ sched.next + Len(JobOrder) - 1 <= MaxJobId
    /\ \E newTokensPerMinute \in SettingsTokensPerMinute :
           checkAndUpdateLimits(newTokensPerMinute)
    /\ \E cancel \in [1..3 -> CancelOutcomes], run \in [1..3 -> RunOutcomes] :
           sched' = scheduleAllJobs(sched, cancel, run)
    /\ jobsFrame

\* AppUpgrade trigger: skipped while upgrade_in_progress is set; the flag
\* is set at the start and deleted in the finally block
AppUpgrade ==
    /\ pc = "idle"
    /\ sched.next + Len(JobOrder) - 1 <= MaxJobId
    /\ IF sched.upgradeInProgress
       THEN UNCHANGED << sched, tokensPerMinute, tokens, lastRefill >>
       ELSE /\ \E newTokensPerMinute \in SettingsTokensPerMinute :
                   checkAndUpdateLimits(newTokensPerMinute)
            /\ \E cancel \in [1..3 -> CancelOutcomes],
                  run \in [1..3 -> RunOutcomes] :
                   sched' = [scheduleAllJobs(sched, cancel, run)
                                 EXCEPT !.upgradeInProgress = FALSE]
    /\ jobsFrame

NextJobs ==
    \/ AppInstall
    \/ AppUpgrade

SpecJobs == Init /\ [][NextJobs]_vars

\* ------------------------------------------------- pulls from a filled queue
\* Runs that start with NPull posts in the queue, due or not, and make one
\* process_queue invocation up to the cut of the batch.
InitPull ==
    /\ now = T0
    /\ ticks = 0
    /\ queue \in [PullItems -> PullScores]
    /\ retry = EmptyMap
    /\ tokens = 0
    /\ lastRefill = 0
    /\ requestsToday = 0
    /\ lastRequest = 0
    /\ tokensPerMinute = 600000
    /\ requestsPerMinute = 1
    /\ requestsPerDay = 1
    /\ callers = NoCallers
    /\ sched = NoJobs
    /\ validation = FALSE
    /\ authError = FALSE
    /\ pc = "idle"
    /\ batch = << >>
    /\ cur = 0
    /\ curRetry = 0
    /\ fatalOn = 0
    /\ failure = NoError
    /\ enq = PullItems
    /\ apiCalls = 0
    /\ slotsGranted = 0
    /\ lastGrant = -1
    /\ grantGap = -1
    /\ op = "none"
    /\ obs = 1
    /\ published = 0
    /\ reschedules = 0
    /\ outcome = "none"
    /\ crashes = 0
    /\ threw = FALSE
    /\ began = -1

NextPull ==
    \/ processQueue

SpecPull == InitPull /\ [][NextPull]_vars

TypeOK ==
    /\ DOMAIN queue \subseteq Items \cup PullItems
    /\ DOMAIN retry \subseteq Items
    /\ tokens \in 0..tokensPerMinute
    /\ DOMAIN callers \subseteq Callers

\* ------------------------------------------------------------ properties
Ready == {m \in DOMAIN queue : queue[m] <= now}

\* ready entries that come before m in (score, member) order
Before(m) ==
    {o \in Ready : queue[o] < queue[m] \/ (queue[o] = queue[m] /\ o < m)}

InBatch(m) == \E i \in 1..Len(batch) : batch[i] = m

\* the batch has just been cut and no post of it has been started
FreshBatch == pc = "loop" /\ cur = 0

\* obs is not being handled by the running invocation
AtRest == cur # obs \/ pc \in {"idle", "loop"}

Scheduled == obs \in DOMAIN queue

\* C1: between two daily resets the pipeline issues at most requestsPerDay
\* summarization API calls.
C1_DailyCeiling == apiCalls <= requestsPerDay

\* C2: every granted request slot adds one to requests_today and stamps
\* last_request with the grant time, so requests_today equals the number of
\* slots granted since the last daily reset.
C2_GrantsCounted ==
    /\ requestsToday = slotsGranted
    /\ lastGrant # -1 => lastRequest = lastGrant

\* C3: two consecutive granted request slots are at least
\* 60 / requestsPerMinute seconds apart.
C3_RequestSpacing ==
    grantGap # -1 => grantGap * requestsPerMinute >= 60000

\* C4: after any sequence of refill, waitForTokens and releaseTokens the
\* stored token count is within [0, tokensPerMinute].
C4_TokensInRange == tokens >= 0 /\ tokens <= tokensPerMinute

\* a reservation that had to wait for the refill has taken the bucket to 0
C4_Witness ==
    /\ pc = "ledger"
    /\ op = "tokensGranted"
    /\ lastRefill > T0
    /\ tokens = 0

\* C5: after any sequence of slot reservations, releases and daily resets
\* requests_today is within [0, requestsPerDay], and a slot is granted or
\* reported available only while requests_today was below requestsPerDay.
C5_RequestsInRange ==
    /\ requestsToday >= 0 /\ requestsToday <= requestsPerDay
    /\ op = "slotAvailable" => requestsToday < requestsPerDay

\* the last slot of the day has just been reserved
C5_Witness ==
    /\ pc = "ledger"
    /\ op = "slotReserved"
    /\ requestsPerDay > 1
    /\ requestsToday = requestsPerDay

\* C6: with kills and resumes, the summary of an item is published at most
\* once over the whole run.
C6_PublishedAtMostOnce == published <= 1

\* C7: an item leaves the queue only after a terminal outcome: its summary
\* was published, it was evicted after retry exhaustion or a non-retryable
\* error, its post was not found, or it was purged by the cleanup.
C7_NoItemLost ==
    (obs \in enq /\ ~Scheduled) =>
        \/ published >= 1
        \/ outcome \in {"exhausted", "nonResolvable", "notFound", "purged"}

\* C8 as stated: every entry with score <= now is in the batch of the next
\* process_queue invocation.
C8_ReadyAlwaysPulled ==
    FreshBatch => \A m \in Ready : InBatch(m)

\* C8: an entry with score <= now is in the batch of the next process_queue
\* invocation exactly when fewer than ten ready entries come before it in
\* (score, member) order.
C8_ReadyPulledWithinCut ==
    FreshBatch =>
        \A m \in Ready : InBatch(m) <=> Cardinality(Before(m)) < BatchSize

\* more posts are ready than one batch takes
C8_Witness ==
    /\ FreshBatch
    /\ Cardinality(Ready) > BatchSize
    /\ \E m \in Ready : ~InBatch(m)

\* C9: without kills, an item is rescheduled at most MAX_RETRIES times and
\* an item evicted for exhausted retries was rescheduled exactly MAX_RETRIES
\* times.
C9_RetryBound ==
    /\ reschedules <= MAX_RETRIES
    /\ outcome = "exhausted" => reschedules = MAX_RETRIES

\* an item has been evicted after using up its retries
C9_Witness ==
    /\ outcome = "exhausted"
    /\ reschedules = MAX_RETRIES
    /\ ~Scheduled

\* C10 as stated: once an item has had its second retryable failure, its
\* queue entry and its retry counter are gone.
C10_EvictedAfterSecondFailure ==
    (AtRest /\ reschedules = MAX_RETRIES) =>
        ~Scheduled /\ obs \notin DOMAIN retry

\* C10: after its second retryable failure an item is still queued with
\* retry counter 2; the failure after that removes the queue entry and the
\* counter.
C10_EvictedOnThirdFailure ==
    AtRest =>
        /\ (reschedules = MAX_RETRIES /\ outcome = "none") =>
               Scheduled /\ getCurrentRetryCount(obs) = MAX_RETRIES
        /\ outcome = "exhausted" => ~Scheduled /\ obs \notin DOMAIN retry

\* an item waits for its third attempt with retry counter 2
C10_Witness ==
    /\ AtRest
    /\ outcome = "none"
    /\ reschedules = MAX_RETRIES
    /\ Scheduled
    /\ getCurrentRetryCount(obs) = MAX_RETRIES

\* C11: once the worker has removed an item from the queue (success,
\* eviction after exhausted retries or a non-retryable error, post not
\* found), the item is absent from the queue and its retry counter key does
\* not exist.
C11_EvictionClearsState ==
    (AtRest /\ outcome \in {"submitted", "exhausted", "nonResolvable", "notFound"}) =>
        ~Scheduled /\ obs \notin DOMAIN retry

\* C12: an authentication failure of the summarizer on an item leaves the
\* item in the queue at its score (still due) and leaves its retry counter
\* as it was read.
C12_FatalLeavesItem ==
    fatalOn = obs =>
        /\ Scheduled
        /\ queue[obs] <= now
        /\ cur = obs => getCurrentRetryCount(obs) = curRetry

\* C13: after an authentication failure on an item the invocation starts
\* no later item of the batch.
C13_FatalAbortsBatch ==
    fatalOn # 0 => cur = fatalOn

\* C14: while gemini_auth_error is set, an invocation started after the
\* one that set it does nothing: it never gets to the loop over a batch.
C14_PausedWorkerIdle ==
    (authError /\ fatalOn = 0) => pc = "idle"

\* C16: every reservation call returns within its timeout: a
\* checkRequestAvailability, waitForTokens or waitForRequest call started in
\* any state of the bucket comes back, also at the daily limit and for an
\* amount above the cap.
C16_WaitsBounded ==
    pc = "ledger" =>
        /\ \A amount \in LedgerAmounts :
              waitForTokens(amount, tokens, lastRefill, now, tokensPerMinute,
                  TOKEN_WAIT_TIMEOUT).now <= now + TOKEN_WAIT_TIMEOUT
        /\ checkRequestAvailability(now, lastRequest, requestsToday,
               requestsPerMinute, requestsPerDay, REQUEST_SLOT_TIMEOUT).now
             <= now + REQUEST_SLOT_TIMEOUT
        /\ waitForRequest(now, lastRequest, requestsToday, requestsPerMinute,
               requestsPerDay).granted

C18_OverCapNeverGranted ==
    [][\A amount \in LedgerAmounts :
          (amount > tokensPerMinute /\ callWaitForTokens(amount)) =>
              /\ op' = "tokensTimedOut"
              /\ now' = now + TOKEN_WAIT_TIMEOUT
              /\ tokens' >= tokens]_vars

\* a call for more than the cap has timed out on a full bucket
C18_Witness ==
    /\ pc = "ledger"
    /\ op = "tokensTimedOut"
    /\ tokens = tokensPerMinute

\* C19: a refill dt ms after the last one, with no reservation or release
\* in between, takes the stored tokens to
\* min(previous + (dt / 1000) * tokensPerMinute / 60, tokensPerMinute),
\* which is never less than before.
C19_RefillProportional ==
    [][(op' = "tokensTimedOut" /\ lastRefill' # lastRefill) =>
          /\ tokens' = Min(tokens + ((lastRefill' - lastRefill)
                                      * (tokensPerMinute \div 60)) \div 1000,
                           tokensPerMinute)
          /\ tokens' >= tokens]_vars

\* refills alone have taken an empty bucket to just below the cap
C19_Witness ==
    /\ pc = "ledger"
    /\ op = "tokensTimedOut"
    /\ tokens > 0
    /\ tokens < tokensPerMinute

\* C20: requests_today is lowered by no step other than the daily reset.
C20_OnlyDailyReset ==
    [][requestsToday' < requestsToday => resetDailyRequests]_vars

\* errors of the summarizer, of the quota waits and of the reddit calls
SummaryFailures ==
    {geminiError(e) : e \in GeminiErrors} \cup RedditErrors
        \cup {RequestSlotUnavailable, TokensUnavailable}

\* neither a resolvable kind, nor authentication, nor the daily limit
Unrecognised(error) ==
    /\ ~isResolvableError(error)
    /\ error.message \notin {"GeminiAuthenticationError", "DailyRequestLimitReached"}

\* C21: a retryable failure of an item with retry count n < MAX_RETRIES
\* re-enqueues it at now + RETRY_INTERVAL when n = 0 and at
\* now + RETRY_INTERVAL + RETRY_DELAY when n > 0, and sets the count to n + 1.
C21_EscalatingDelay ==
    [][/\ (retryPost /\ curRetry < MAX_RETRIES) =>
              queue'[cur] = now + RETRY_INTERVAL
                                + (IF curRetry > 0 THEN RETRY_DELAY ELSE 0)
       /\ retryHSet => retry'[cur] = curRetry + 1]_vars

\* C22: an item that did not get its request slot or its tokens within the
\* timeout is rescheduled as long as its retry count is below MAX_RETRIES.
C22_QuotaTimeoutRetried ==
    (failure \in {RequestSlotUnavailable, TokensUnavailable}
        /\ curRetry < MAX_RETRIES) => pc \in {"retryPost", "retryHSet"}

\* C23: a failure of the summarizer or of the publication that is neither
\* resolvable, nor authentication, nor the daily limit removes the queue
\* entry and the retry counter of the item at once, with no reschedule,
\* whatever its retry count.
C23_NonResolvableEvicted ==
    /\ (cur # 0 /\ failure \in SummaryFailures /\ Unrecognised(failure)) =>
           /\ pc \in {"evict", "del"}
           /\ pc = "del" => cur \notin DOMAIN queue
    /\ (AtRest /\ outcome = "nonResolvable") =>
           ~Scheduled /\ obs \notin DOMAIN retry

\* an item that had been rescheduled before is evicted for an unrecognised
\* error of the summarizer
C23_Witness ==
    /\ pc = "del"
    /\ cur = obs
    /\ failure = OtherError
    /\ curRetry >= 1
    /\ outcome = "nonResolvable"
    /\ ~Scheduled

\* C24: a failure of the content fetch is handled by its kind: a resolvable
\* error reschedules the item, any other error evicts it.
C24_FetchClassified ==
    failure \in FetchErrors =>
        IF isResolvableError(failure)
        THEN pc \in {"retryPost", "retryHSet", "del"}
        ELSE pc \in {"evict", "del"}

\* C25: a process_queue invocation that finds requests_today at or above
\* requestsPerDay pulls no item, calls no collaborator and leaves the queue,
\* the retry counters and the quota values as they are.
C25_DailyLimitNoOp ==
    [][(processQueue /\ requestsToday >= requestsPerDay) =>
          /\ pc' = "idle"
          /\ batch' = << >> /\ cur' = 0
          /\ UNCHANGED << store, ledger, limits, callers, sched, apiCalls, itemHist >>]_vars

\* the daily count is used up while a validated key and a due post would
\* let an invocation run
C25_Witness ==
    /\ pc = "idle"
    /\ requestsToday >= requestsPerDay
    /\ validation
    /\ Ready # {}

\* C26: the invocation in which the summarizer failed with an
\* authentication error ends by throwing to the scheduler, and while
\* gemini_auth_error is set no later invocation throws again.
C26_RaisedOncePerEpisode ==
    [][/\ (fatalOn # 0 /\ fatalOn' = 0) => threw'
       /\ (authError /\ processQueue) => ~threw']_vars

\* C27: the batch that an invocation cuts holds Min(10, number of due
\* entries) distinct entries, all with score <= now, in ascending score
\* order, none of them with a larger score than a due entry left out; and
\* cutting it leaves the queue as it was.
C27_PullReadyExact ==
    [][processQueue =>
          /\ queue' = queue
          /\ pc' = "loop" =>
                LET n == Len(batch')
                    pulled == {batch'[i] : i \in 1..n}
                IN  /\ n = Min(Cardinality(Ready), BatchSize)
                    /\ Cardinality(pulled) = n
                    /\ pulled \subseteq Ready
                    /\ \A i \in 1..(n - 1) :
                          queue[batch'[i]] <= queue[batch'[i + 1]]
                    /\ \A m \in Ready \ pulled : queue[batch'[n]] <= queue[m]]_vars

\* a batch of ten with two different scores, cut from a queue that holds
\* one more due entry
C27_Witness ==
    /\ FreshBatch
    /\ Len(batch) = BatchSize
    /\ queue[batch[1]] < queue[batch[BatchSize]]
    /\ \E m \in Ready : ~InBatch(m) /\ queue[m] >= queue[batch[BatchSize]]

\* C28: the posts of a batch are handled one after the other in ascending
\* score order: a post that is started has no larger score than any post
\* still waiting in the batch, the waiting posts are untouched and in
\* ascending order, and when the loop goes on the post just handled has
\* been removed or rescheduled.
C28_SequentialAscending ==
    /\ \A i \in 1..Len(batch) :
          /\ batch[i] \in Ready
          /\ batch[i] # cur
          /\ \A j \in 1..Len(batch) : i < j => queue[batch[i]] <= queue[batch[j]]
    /\ pc = "getPost" =>
          /\ cur \in Ready
          /\ \A i \in 1..Len(batch) : queue[cur] <= queue[batch[i]]
    /\ (pc = "loop" /\ cur # 0) => (cur \notin DOMAIN queue \/ queue[cur] > now)

\* the post with the smaller score is started while the other one waits
C28_Witness ==
    /\ pc = "getPost"
    /\ batch # << >>
    /\ queue[cur] < queue[batch[1]]

\* C29: every retry counter that exists holds a value in 0..MAX_RETRIES,
\* a reschedule is only made from a count below MAX_RETRIES, and a
\* resolvable failure of an item whose count is MAX_RETRIES removes it from
\* the queue.
C29_RetryCounterRange ==
    /\ \A m \in DOMAIN retry : retry[m] >= 0 /\ retry[m] <= MAX_RETRIES
    /\ pc = "retryHSet" => curRetry < MAX_RETRIES /\ cur \in DOMAIN queue
    /\ (isResolvableError(failure) /\ curRetry = MAX_RETRIES) =>
           /\ pc \in {"retryPost", "del"}
           /\ pc = "del" => cur \notin DOMAIN queue

\* an item with retry count MAX_RETRIES has failed again with a resolvable
\* error and has been removed
C29_Witness ==
    /\ pc = "del"
    /\ cur = obs
    /\ isResolvableError(failure)
    /\ curRetry = MAX_RETRIES
    /\ retry[obs] = MAX_RETRIES
    /\ ~Scheduled

\* C30: when getPostById finds no post, the item is removed from the queue
\* at once, it is not rescheduled, its retry counter is not written, and
\* the loop goes on with the rest of the batch.
C30_NotFoundRemoved ==
    [][(getPostById /\ pc' = "loop") =>
          /\ cur \notin DOMAIN queue'
          /\ \A m \in DOMAIN queue' : queue'[m] = queue[m]
          /\ retry' = retry
          /\ reschedules' = reschedules
          /\ batch' = batch]_vars

\* a post that was not found has been removed while another post of the
\* batch waits for its turn
C30_Witness ==
    /\ pc = "loop"
    /\ cur = obs
    /\ outcome = "notFound"
    /\ ~Scheduled
    /\ batch # << >>

\* C31: summarizeContent takes inputTokens + maxSummaryTokens from the
\* refilled bucket when the reservation is granted and takes nothing when it
\* is not; after the Gemini call the unused part of maxSummaryTokens comes
\* back when the call succeeded and the whole of it when the call failed, so
\* a successful call costs inputTokens + actualOutputTokens.
C31_TokenReconciliation ==
    [][/\ (summarizeContent /\ pc' = "gemini") =>
              \E inputTokens \in InputTokenChoices :
                  tokens' = refill(tokens, lastRefill, lastRefill', tokensPerMinute)
                                - (inputTokens + maxSummaryTokens)
       /\ (summarizeContent /\ pc' # "gemini") =>
              tokens' = refill(tokens, lastRefill, lastRefill', tokensPerMinute)
       /\ (generateSummaryWithGemini /\ pc' = "submit") =>
              \E actualOutputTokens \in OutputTokenChoices :
                  /\ actualOutputTokens <= maxSummaryTokens
                  /\ tokens' = tokens + maxSummaryTokens - actualOutputTokens
       /\ (generateSummaryWithGemini /\ pc' # "submit") =>
              tokens' = tokens + maxSummaryTokens]_vars

\* a successful call on a full bucket has cost inputTokens +
\* actualOutputTokens
C31_Witness ==
    /\ pc = "submit"
    /\ \E inputTokens \in InputTokenChoices, actualOutputTokens \in OutputTokenChoices :
          tokens = tokensPerMinute - (inputTokens + actualOutputTokens)

\* C32: the cleanup_queue job removes exactly the entries whose score is
\* more than 24 hours before now, scores and now both in milliseconds, and
\* leaves every other entry with its score.
C32_PurgeOlderThanDay ==
    pc = "idle" =>
        zRangeMembers(queue, 0, oneDayAgoSeconds)
            = {m \in DOMAIN queue : queue[m] < now - OneDay}

\* the amounts granted to the calls in S, and the tokens refilled since the
\* calls started
RECURSIVE grantedSum(_)
grantedSum(S) ==
    IF S = {} THEN 0
    ELSE LET c == CHOOSE x \in S : TRUE
         IN  (IF callers[c].granted THEN callers[c].amount ELSE 0)
                 + grantedSum(S \ {c})

refilledSince(start) == ((now - start) \div PollInterval) * PerPoll(tokensPerMinute)

\* C33: waitForTokens is atomic with respect to concurrent callers: the
\* amounts granted to calls that run side by side never add up to more than
\* the tokens that were available plus what was refilled meanwhile.
C33_AtomicReservation ==
    pc = "race" =>
        grantedSum(DOMAIN callers) <= RaceTokens + refilledSince(T0)

\* C34: invocations of the process_queue job never overlap: an invocation,
\* whatever it waits for, is over before the 30 s of the cadence have
\* passed since it started.
C34_NoOverlap ==
    began # -1 => now - began < CRON_EVERY_30_SECONDS

\* C35: between invocations a retry counter retry:<postId> exists only for
\* a post that is still in the queue: no removal leaves a counter behind.
C35_NoOrphanCounter ==
    pc = "idle" => \A m \in DOMAIN retry : m \in DOMAIN queue

\* C36: the retry bound survives kills: whenever the worker is killed, also
\* between the two writes of a reschedule or of an eviction, an item is
\* rescheduled at most MAX_RETRIES times in total.
C36_RetryBoundSurvivesCrash == reschedules <= MAX_RETRIES

\* C37: an item is removed from the queue as succeeded only if its summary
\* was published: when submitComment returns no comment, the item is not
\* removed as a success.
C37_RemovedOnlyIfPublished ==
    outcome = "submitted" => published >= 1

C39_OneJobPerName ==
    \A name \in JobNames :
        /\ Cardinality(sched.active[name]) <= 1
        /\ \A jobId \in sched.active[name] : sched.key[name] = jobId

====
